---- MODULE Spec2Model ----
(***************************************************************************)
(* GitHubIssueReader (src/github_integration/issue_reader.py): the         *)
(* authenticated session, the request loop _make_request with its          *)
(* rate-limit handling, and the three fetchers that build a request and    *)
(* delegate to it.  The remote service and the clock are the environment:  *)
(* the service answers each request issued with one response of Responses, *)
(* and time passes while the client waits or sleeps.                       *)
(***************************************************************************)
EXTENDS Integers, Sequences, FiniteSets, TLC

VARIABLES
    self,      \* the client object: [token, base_url, headers]
    ctor,      \* "none" | "ok" | "ValueError": how __init__ ended
    given,     \* observer: the token argument and GITHUB_TOKEN it was given
    pc,        \* "idle" | "continue" | "awaiting" | "backoff" | "returned" | "raised"
    op,        \* the fetcher running (or last run)
    args,      \* the arguments the caller passed to that fetcher
    req,       \* _make_request's method, url, kwargs
    wire,      \* the request last handed to session.request, as transmitted
    resp,      \* the response to the request in flight (NoResp until it arrives)
    outcome,   \* what the call gave the caller: a value or an exception
    first,     \* observer: the first request this call transmitted
    slept,     \* the argument of the last time.sleep of this call
    now,       \* int(time.time())
    nreq,      \* observer: session.request calls made by this call
    nsleep,    \* observer: time.sleep calls made by this call
    nthr,      \* observer: throttled responses (reset ahead) this call received
    nother,    \* observer: responses received that are neither those nor a 200
    callId     \* observer: flips at every fetcher call

vars == <<self, ctor, given, pc, op, args, req, wire, first, resp, outcome, slept,
          now, nreq, nsleep, nthr, nother, callId>>

---------------------------------------------------------------------------
\* Bounds of the model.

\* The observers count exactly below MaxCount and stay at MaxCount from there on.
MaxCount == 4
\* The clock's value when the client is constructed.
StartTime == 1000

\* Constants of the program.
MaxSleep == 3600
MaxPerPage == 100

---------------------------------------------------------------------------
\* Python values.  An Optional is <<>> (None) or <<v>>.

None == <<>>
Some(v) == <<v>>

Min(a, b) == IF a < b THEN a ELSE b

Bump(n) == IF n < MaxCount THEN n + 1 ELSE MaxCount

\* Mutant: tests `is not None` where the code tests truthiness.
TruthyStr_NotNone(o) == o /= None

\* bool(s) of an Optional[str]: None and "" are falsy.
TruthyStr(o) == o /= None /\ o[1] /= ""

\* bool(l) of an Optional[List[str]]: None and [] are falsy.
TruthyList(o) == o /= None /\ o[1] /= <<>>

\* `a or b` on Optional[str].
PyOr(a, b) == IF TruthyStr(a) THEN a ELSE b

\* int(s) of a header value: the integer whose decimal form s is, no value
\* (ValueError) when s is not a number.
IntLiterals == (StartTime - 20) .. (StartTime + 20) \cup 0 .. 9
    \cup {StartTime + MaxSleep + d : d \in -5 .. 5} \cup {StartTime + 9000}
PyInt(s) ==
    IF \E n \in IntLiterals : ToString(n) = s
    THEN Some(CHOOSE n \in IntLiterals : ToString(n) = s)
    ELSE None

---------------------------------------------------------------------------
\* Construction.

BaseUrl == "https://api.github.com"

\* requests.Session() starts with the library's default headers.
DefaultHeaders ==
    ("User-Agent" :> "python-requests") @@ ("Accept-Encoding" :> "gzip, deflate")
    @@ ("Accept" :> "*/*") @@ ("Connection" :> "keep-alive")

\* dict.update: the keys of u replace those of h.
Update(h, u) == u @@ h

SessionHeaders(token) ==
    Update(DefaultHeaders,
           ("Authorization" :> ("token " \o token))
           @@ ("Accept" :> "application/vnd.github.v3+json")
           @@ ("User-Agent" :> "Claude-MCP-GitHub-Integration"))

NoObject == [token |-> None, base_url |-> None, headers |-> None]

\* Mutant: falls back to the environment only when the argument is None.
ResolveToken_NoneCheck(token, env) == IF token /= None THEN token ELSE env

\* The token __init__ settles on: the argument, else the environment.
ResolveToken(token, env) == PyOr(token, env)

\* The credential values tried: absent, empty, and two secrets.
TokenInputs == {None, Some(""), Some("ghp_A")}
EnvInputs == {None, Some(""), Some("ghp_E")}

NoResp == [status |-> 0, headers |-> <<>>, body |-> ""]
NoCall == [method |-> "", url |-> "", params |-> None]
NoReq == [method |-> "", url |-> "", params |-> None, headers |-> <<>>]
NoOutcome == [kind |-> "none", status |-> 0, value |-> None]

Init ==
    /\ self = NoObject
    /\ ctor = "none"
    /\ given = <<None, None>>
    /\ pc = "idle"
    /\ op = "none"
    /\ args = None
    /\ req = NoCall
    /\ wire = NoReq
    /\ first = NoReq
    /\ resp = NoResp
    /\ outcome = NoOutcome
    /\ slept = 0
    /\ now = StartTime
    /\ nreq = 0
    /\ nsleep = 0
    /\ nthr = 0
    /\ nother = 0
    /\ callId = 0

\* GitHubIssueReader(token) with GITHUB_TOKEN = env (None: unset).
GitHubIssueReader(token, env) ==
    /\ ctor /= "ok"
    /\ LET t == ResolveToken(token, env) IN
        IF ~TruthyStr(t)
        THEN /\ self' = [NoObject EXCEPT !.token = t]
             /\ ctor' = "ValueError"
        ELSE /\ self' = [token |-> t,
                         base_url |-> Some(BaseUrl),
                         headers |-> Some(SessionHeaders(t[1]))]
             /\ ctor' = "ok"
    /\ given' = <<token, env>>
    /\ UNCHANGED <<pc, op, args, req, wire, first, resp, outcome, slept, now,
                   nreq, nsleep, nthr, nother, callId>>

\* The retry loop is explored with the environment variable unset.
Construct == \E token \in {None, Some("ghp_A")} : GitHubIssueReader(token, None)

ConstructAny ==
    \E token \in TokenInputs, env \in EnvInputs : GitHubIssueReader(token, env)

---------------------------------------------------------------------------
\* The remote service's responses.

RateHeaders(remaining, reset) ==
    ("X-RateLimit-Remaining" :> remaining) @@ ("X-RateLimit-Reset" :> reset)

Response(status, headers, body) ==
    [status |-> status, headers |-> headers, body |-> body]

\* Reset timestamps the service names: past, reached at StartTime, and ahead
\* by one second, by less than, exactly and more than the cap.
ResetTimes ==
    {StartTime - 1, StartTime, StartTime + 1,
     StartTime + MaxSleep - 2,
     StartTime + MaxSleep - 1, StartTime + MaxSleep, StartTime + 9000}

\* The headers a 403 may carry: none, quota left, quota exhausted with a
\* reset timestamp, and malformed ones (a header missing or not a number).
Headers403 ==
    {<<>>,
     RateHeaders("5", ToString(StartTime + MaxSleep)),
     RateHeaders("n/a", ToString(StartTime + MaxSleep)),
     "X-RateLimit-Remaining" :> "0",
     RateHeaders("0", "n/a")}
    \cup {RateHeaders("0", ToString(T)) : T \in ResetTimes}

Bodies == {"[]", "[7]"}

OtherStatuses == {202, 404, 500}

Responses ==
    {Response(200, RateHeaders("5", ToString(StartTime + MaxSleep)), b) : b \in Bodies}
    \cup {Response(s, RateHeaders("5", ToString(StartTime + MaxSleep)), "") :
            s \in OtherStatuses}
    \cup {Response(403, h, "") : h \in Headers403}

\* response.json() on the bodies above.
Json(body) == IF body = "[7]" THEN <<7>> ELSE <<>>

---------------------------------------------------------------------------
\* _handle_rate_limit and _make_request.

\* Mutant: the one-second margin subtracted instead of added.
SleepTime_SignSlip(reset_time, t) == reset_time - t - 1

\* sleep_time = reset_time - int(time.time()) + 1
SleepTime(reset_time, t) == reset_time - t + 1

\* Mutant: the one-hour cap left out.
SleepArg_NoCap(sleep_time) == sleep_time

\* min(sleep_time, 3600)
SleepArg(sleep_time) == Min(sleep_time, MaxSleep)

\* _handle_rate_limit(response) at clock t: what it does before returning.
\*   [kind |-> "sleep", d]  time.sleep(d) is called
\*   [kind |-> "pass"]      it returns without sleeping
\*   [kind |-> "KeyError" | "ValueError"]  a header lookup or int() raises
_handle_rate_limit(response, t) ==
    LET h == response.headers
        pass == [kind |-> "pass", d |-> 0]
        err(k) == [kind |-> k, d |-> 0]
    IN  IF response.status = 403 /\ "X-RateLimit-Remaining" \in DOMAIN h
        THEN LET remaining == PyInt(h["X-RateLimit-Remaining"]) IN
             IF remaining = None THEN err("ValueError")
             ELSE IF remaining[1] = 0
             THEN IF "X-RateLimit-Reset" \notin DOMAIN h THEN err("KeyError")
                  ELSE LET reset_time == PyInt(h["X-RateLimit-Reset"]) IN
                       IF reset_time = None THEN err("ValueError")
                       ELSE LET sleep_time == SleepTime(reset_time[1], t) IN
                            IF sleep_time > 0
                            THEN [kind |-> "sleep", d |-> SleepArg(sleep_time)]
                            ELSE pass
             ELSE pass
        ELSE pass

\* Mutant: any 2xx taken for success.
Is200_Any2xx(status) == 200 <= status /\ status < 300

\* response.status_code == 200
Is200(status) == status = 200

\* response.status_code == 403
Is403(status) == status = 403

\* Mutant: only server errors raise.
raise_for_status_ServerOnly(status) == 500 <= status /\ status < 600

\* response.raise_for_status(): an HTTPError for a 4xx or 5xx status.
raise_for_status(status) == 400 <= status /\ status < 600

\* Mutant: a retry is sent without the call's kwargs.
Transmit_DropsKwargs(r) ==
    [method |-> r.method, url |-> r.url,
     params |-> IF nreq = 0 THEN r.params ELSE None,
     headers |-> self.headers[1]]

\* What session.request(method, url, **kwargs) puts on the wire: the call's
\* arguments under the session's headers.
Transmit(r) ==
    [method |-> r.method, url |-> r.url, params |-> r.params,
     headers |-> self.headers[1]]

\* The top of the loop: response = self.session.request(method, url, **kwargs).
SendRequest ==
    /\ pc = "continue"
    /\ wire' = Transmit(req)
    /\ first' = IF nreq = 0 THEN Transmit(req) ELSE first
    /\ resp' = NoResp
    /\ nreq' = Bump(nreq)
    /\ pc' = "awaiting"
    /\ UNCHANGED <<self, ctor, given, op, args, req, outcome, slept, now, nsleep,
                   nthr, nother, callId>>

\* The response is of the throttle kind with its reset still ahead at t.
ThrottledAhead(r, t) ==
    /\ r.status = 403
    /\ "X-RateLimit-Remaining" \in DOMAIN r.headers
    /\ "X-RateLimit-Reset" \in DOMAIN r.headers
    /\ PyInt(r.headers["X-RateLimit-Remaining"]) = Some(0)
    /\ PyInt(r.headers["X-RateLimit-Reset"]) /= None
    /\ PyInt(r.headers["X-RateLimit-Reset"])[1] > t

\* The loop body of _make_request from the arrival of response r on: it
\* returns, raises, starts a sleep or goes back to the top of the loop.
_make_request(r) ==
    /\ pc = "awaiting"
    /\ resp' = r
    /\ nthr' = IF ThrottledAhead(r, now) THEN Bump(nthr) ELSE nthr
    /\ nother' = IF r.status /= 200 /\ ~ThrottledAhead(r, now)
                 THEN Bump(nother) ELSE nother
    /\ IF Is200(r.status)
       THEN /\ pc' = "returned"
            /\ outcome' = [kind |-> "return", status |-> r.status,
                           value |-> Json(r.body)]
            /\ UNCHANGED <<slept, nsleep>>
       ELSE IF Is403(r.status)
       THEN LET h == _handle_rate_limit(r, now) IN
            IF h.kind = "sleep"
            THEN /\ pc' = "backoff"
                 /\ slept' = h.d
                 /\ nsleep' = Bump(nsleep)
                 /\ UNCHANGED outcome
            ELSE IF h.kind = "pass"
            THEN /\ pc' = "continue"
                 /\ UNCHANGED <<outcome, slept, nsleep>>
            ELSE /\ pc' = "raised"
                 /\ outcome' = [kind |-> h.kind, status |-> r.status,
                                value |-> None]
                 /\ UNCHANGED <<slept, nsleep>>
       ELSE IF raise_for_status(r.status)
       THEN /\ pc' = "raised"
            /\ outcome' = [kind |-> "HTTPError", status |-> r.status,
                           value |-> None]
            /\ UNCHANGED <<slept, nsleep>>
       ELSE /\ pc' = "continue"
            /\ UNCHANGED <<outcome, slept, nsleep>>
    /\ UNCHANGED <<self, ctor, given, op, args, req, wire, first, now, nreq, callId>>

\* time.sleep(slept) returns after that many seconds; `continue` follows.
WakeUp ==
    /\ pc = "backoff"
    /\ now' = now + slept
    /\ pc' = "continue"
    /\ UNCHANGED <<self, ctor, given, op, args, req, wire, first, resp, outcome,
                   slept, nreq, nsleep, nthr, nother, callId>>

\* Time passes while a request is in flight or between calls.
ClockTimes == {StartTime + 5, StartTime + MaxSleep + 5}
Tick ==
    /\ pc \in {"idle", "awaiting", "returned", "raised"}
    /\ \E t \in ClockTimes : t > now /\ now' = t
    /\ UNCHANGED <<self, ctor, given, pc, op, args, req, wire, first, resp, outcome,
                   slept, nreq, nsleep, nthr, nother, callId>>

---------------------------------------------------------------------------
\* The fetchers.

\* A fetcher's call self._make_request('GET', url, params=params): the loop
\* is entered with these arguments.
StartCall(name, a, url, params) ==
    /\ ctor = "ok"
    /\ pc \in {"idle", "returned", "raised"}
    /\ op' = name
    /\ args' = a
    /\ req' = [method |-> "GET", url |-> url, params |-> params]
    /\ wire' = NoReq
    /\ first' = NoReq
    /\ resp' = NoResp
    /\ outcome' = NoOutcome
    /\ slept' = 0
    /\ nreq' = 0
    /\ nsleep' = 0
    /\ nthr' = 0
    /\ nother' = 0
    /\ callId' = 1 - callId
    /\ pc' = "continue"
    /\ UNCHANGED <<self, ctor, given, now>>

IssueUrl(base_url, owner, repo, issue_number) ==
    base_url \o "/repos/" \o owner \o "/" \o repo \o "/issues/"
    \o ToString(issue_number)

get_issue(owner, repo, issue_number) ==
    StartCall("get_issue",
              [owner |-> owner, repo |-> repo, issue_number |-> issue_number],
              IssueUrl(self.base_url[1], owner, repo, issue_number),
              None)

Owners == {"octo"}
Repos == {"hello"}
IssueNumbers == {42}

GetIssue ==
    \E o \in Owners, r \in Repos, n \in IssueNumbers : get_issue(o, r, n)

\* ','.join(labels)
RECURSIVE Join(_, _)
Join(sep, l) ==
    IF l = <<>> THEN ""
    ELSE IF Len(l) = 1 THEN l[1]
    ELSE l[1] \o sep \o Join(sep, Tail(l))

\* A `since` argument is None, <<"str", s>> or <<"datetime", d>>.
IsDatetime(since) == since[1] = "datetime"

\* bool(since): a datetime is always truthy, a str when not empty.
TruthySince(since) ==
    since /= None /\ (IsDatetime(since) \/ since[2] /= "")

Pad2(n) == IF n < 10 THEN "0" \o ToString(n) ELSE ToString(n)

\* datetime.isoformat() of a naive datetime without microseconds.
isoformat(d) ==
    ToString(d.year) \o "-" \o Pad2(d.month) \o "-" \o Pad2(d.day) \o "T"
    \o Pad2(d.hour) \o ":" \o Pad2(d.minute) \o ":" \o Pad2(d.second)

\* Mutant: clamps at both ends, to 1..100.
ClampPerPage_BothEnds(per_page) ==
    IF per_page > MaxPerPage THEN MaxPerPage
    ELSE IF per_page < 1 THEN 1 ELSE per_page

\* min(per_page, 100)
ClampPerPage(per_page) == Min(per_page, MaxPerPage)

\* The params dict list_issues builds from its arguments a.
list_issues_params(a) ==
    LET p0 == ("state" :> a.state) @@ ("per_page" :> ClampPerPage(a.per_page))
              @@ ("page" :> a.page)
        p1 == IF TruthyList(a.labels)
              THEN ("labels" :> Join(",", a.labels[1])) @@ p0 ELSE p0
        p2 == IF TruthyStr(a.assignee)
              THEN ("assignee" :> a.assignee[1]) @@ p1 ELSE p1
        p3 == IF TruthyStr(a.creator)
              THEN ("creator" :> a.creator[1]) @@ p2 ELSE p2
        p4 == IF TruthyStr(a.mentioned)
              THEN ("mentioned" :> a.mentioned[1]) @@ p3 ELSE p3
        p5 == IF TruthySince(a.since)
              THEN ("since" :> (IF IsDatetime(a.since)
                                THEN isoformat(a.since[2])
                                ELSE a.since[2])) @@ p4
              ELSE p4
    IN  p5

IssuesUrl(base_url, owner, repo) ==
    base_url \o "/repos/" \o owner \o "/" \o repo \o "/issues"

list_issues(a) ==
    StartCall("list_issues", a, IssuesUrl(self.base_url[1], a.owner, a.repo),
              Some(list_issues_params(a)))

\* The params dict get_issue_comments builds.
get_issue_comments_params(a) ==
    ("per_page" :> ClampPerPage(a.per_page)) @@ ("page" :> a.page)

CommentsUrl(base_url, owner, repo, issue_number) ==
    base_url \o "/repos/" \o owner \o "/" \o repo \o "/issues/"
    \o ToString(issue_number) \o "/comments"

get_issue_comments(a) ==
    StartCall("get_issue_comments", a,
              CommentsUrl(self.base_url[1], a.owner, a.repo, a.issue_number),
              Some(get_issue_comments_params(a)))

\* Argument values.
StateInputs == {"open", "all"}
LabelInputs == {None, Some(<<>>), Some(<<"bug", "urgent">>)}
UserInputs == {None, Some(""), Some("alice")}
ADatetime ==
    [year |-> 2024, month |-> 1, day |-> 2, hour |-> 3, minute |-> 4,
     second |-> 5]
SinceInputs ==
    {None, <<"str", "">>, <<"str", "2024-01-01T00:00:00Z">>,
     <<"datetime", ADatetime>>}
PerPageInputs ==
    {-5, 0, 30, MaxPerPage, MaxPerPage + 1, 250}
PageInputs == {1, 2}

ListArgs ==
    [owner : Owners, repo : Repos, state : StateInputs, labels : LabelInputs,
     assignee : UserInputs, creator : UserInputs, mentioned : UserInputs,
     since : SinceInputs, per_page : PerPageInputs, page : PageInputs]

CommentArgs ==
    [owner : Owners, repo : Repos, issue_number : IssueNumbers,
     per_page : PerPageInputs, page : PageInputs]

\* The calls the retry loop is explored with.
ListCalls ==
    {a \in ListArgs :
        /\ a.state = "open" /\ a.creator = None /\ a.mentioned = None
        /\ a.page = 1
        /\ \/ a.labels = None /\ a.assignee = None /\ a.since = None
              /\ a.per_page = 30
           \/ a.labels = Some(<<"bug", "urgent">>) /\ a.assignee = Some("alice")
              /\ a.since = <<"datetime", ADatetime>> /\ a.per_page = 250}

CommentCalls ==
    {a \in CommentArgs : a.issue_number = 42 /\ a.per_page = 250 /\ a.page = 2}

ListIssues == \E a \in ListCalls : list_issues(a)

GetIssueComments == \E a \in CommentCalls : get_issue_comments(a)

Respond == \E r \in Responses : _make_request(r)

Next ==
    \/ Construct
    \/ GetIssue
    \/ ListIssues
    \/ GetIssueComments
    \/ SendRequest
    \/ Respond
    \/ WakeUp
    \/ Tick

Spec == Init /\ [][Next]_vars

---------------------------------------------------------------------------
\* The fetchers' query building over all the argument values: one call per
\* client, answered at once by the service.

FinalResponses == {r \in Responses : r.status \in {200, 404} /\ r.body /= "[7]"}

ListIssuesAny == pc = "idle" /\ \E a \in ListArgs : list_issues(a)

GetIssueCommentsAny == pc = "idle" /\ \E a \in CommentArgs : get_issue_comments(a)

RespondFinal == \E r \in FinalResponses : _make_request(r)

QueryNext ==
    \/ ConstructAny
    \/ ListIssuesAny
    \/ GetIssueCommentsAny
    \/ SendRequest
    \/ RespondFinal

QuerySpec == Init /\ [][QueryNext]_vars
---------------------------------------------------------------------------
\* The request loop under the scheduling the code has: a request issued is
\* answered, a sleep ends, the loop goes on; and the service answers again
\* and again with something that is not the throttle condition.

\* HTTP 403 with a rate-limit-remaining header equal to 0.
ThrottleCondition(r) ==
    /\ r.status = 403
    /\ "X-RateLimit-Remaining" \in DOMAIN r.headers
    /\ PyInt(r.headers["X-RateLimit-Remaining"]) = Some(0)

RespondNonThrottle ==
    \E r \in Responses : ~ThrottleCondition(r) /\ _make_request(r)

LiveSpec ==
    /\ Init /\ [][Next]_vars
    /\ WF_vars(SendRequest) /\ WF_vars(WakeUp) /\ WF_vars(Respond)
    /\ SF_vars(RespondNonThrottle)

---------------------------------------------------------------------------
\* Properties.

\* This step is the arrival of a response: resp' is that response.
Arrival == pc = "awaiting" /\ pc' /= "awaiting"

\* The call has ended and this step does not start another one.
SameCallAfter(end) == pc = end /\ callId' = callId

\* A throttle response as the service sends it: remaining 0 and a numeric
\* reset timestamp.
Throttle(r) ==
    /\ ThrottleCondition(r)
    /\ "X-RateLimit-Reset" \in DOMAIN r.headers
    /\ PyInt(r.headers["X-RateLimit-Reset"]) /= None

ResetOf(r) == PyInt(r.headers["X-RateLimit-Reset"])[1]

\* C1: every response that is neither a 200 nor the throttle condition ends
\* the call at once with an HTTPError carrying its status, with no further
\* request.
C1_NonThrottleRaises ==
    [][(Arrival /\ resp'.status /= 200 /\ ~ThrottleCondition(resp'))
        => /\ pc' = "raised"
           /\ outcome'.kind = "HTTPError"
           /\ outcome'.status = resp'.status
           /\ nreq' = nreq]_vars

\* C2: a call answered by n throttled responses (reset ahead) and then a 200
\* returns that 200's body, after exactly n sleeps and n + 1 requests.
C2_RetryTransparency ==
    (pc = "returned" /\ nother = 0 /\ nthr + 1 < MaxCount)
        => /\ nsleep = nthr
           /\ nreq = nthr + 1
           /\ outcome.kind = "return"
           /\ resp.status = 200
           /\ (resp.body = "[7]" => outcome.value = <<7>>)
           /\ (resp.body = "[]" => outcome.value = <<>>)

C2_Witness ==
    /\ pc = "returned" /\ nother = 0 /\ nthr = 2 /\ nsleep = 2 /\ nreq = 3
    /\ outcome.value = <<7>>

C4_NotFoundRaises ==
    /\ [][(Arrival /\ resp'.status = 404)
            => /\ pc' = "raised"
               /\ outcome' = [kind |-> "HTTPError", status |-> 404,
                              value |-> None]
               /\ nsleep' = nsleep /\ slept' = slept
               /\ nreq' = nreq /\ wire' = wire]_vars
    /\ [][SameCallAfter("raised")
            => /\ pc' = "raised" /\ outcome' = outcome
               /\ nreq' = nreq /\ wire' = wire
               /\ nsleep' = nsleep]_vars

C4_Witness ==
    /\ pc = "raised" /\ resp.status = 404 /\ outcome.kind = "HTTPError"
    /\ nthr = 1 /\ nsleep = 1 /\ nreq = 2

Empty(o) == o = None \/ o = Some("")

\* C6: construction fails, and sets up no base URL and no headers, exactly
\* when the token argument and GITHUB_TOKEN are both absent or empty;
\* otherwise it succeeds with the argument when that is non-empty and with
\* the environment's value when it is not.
C6_CredentialRequired ==
    ctor /= "none" =>
        LET token == given[1]
            env == given[2]
            used == IF Empty(token) THEN env ELSE token
        IN  /\ (Empty(token) /\ Empty(env))
                => /\ ctor = "ValueError"
                   /\ self.base_url = None
                   /\ self.headers = None
            /\ ~(Empty(token) /\ Empty(env))
                => /\ ctor = "ok"
                   /\ self.token = used
                   /\ self.base_url = Some("https://api.github.com")
                   /\ self.headers /= None
                   /\ self.headers[1]["Authorization"] = "token " \o used[1]

C6_Witness ==
    /\ ctor = "ok" /\ given = <<Some(""), Some("ghp_E")>>
    /\ self.headers[1]["Authorization"] = "token ghp_E"

\* C7: list_issues and get_issue_comments transmit per_page = 100 for a
\* requested per_page above 100 and the requested value otherwise (zero and
\* negative included), and the page as given.
C7_PerPageClamped ==
    (op \in {"list_issues", "get_issue_comments"} /\ nreq > 0)
        => /\ wire.params /= None
           /\ wire.params[1]["per_page"] =
                IF args.per_page > 100 THEN 100 ELSE args.per_page
           /\ wire.params[1]["page"] = args.page

C7_Witness ==
    /\ op = "get_issue_comments" /\ nreq > 0 /\ args.per_page = 250
    /\ wire.params[1]["per_page"] = 100 /\ wire.params[1]["page"] = 2

\* The value list_issues is given for a filter key, as a string: the
\* argument itself, the labels joined with commas.
Given(a, k) ==
    IF k = "labels" THEN
        IF a.labels[1] = <<"bug", "urgent">> THEN "bug,urgent" ELSE "?"
    ELSE IF k = "since" THEN
        IF a.since[1] = "str" THEN a.since[2] ELSE "?"
    ELSE a[k][1]

\* The filter argument k was provided and is not empty.
Provided(a, k) ==
    /\ a[k] /= None
    /\ IF k = "labels" THEN a[k][1] /= <<>>
       ELSE IF k = "since" THEN ~(a[k][1] = "str" /\ a[k][2] = "")
       ELSE a[k][1] /= ""

FilterKeys == {"labels", "assignee", "creator", "mentioned", "since"}

\* The keys of the query are right: state, per_page and page always, a
\* filter key exactly when its argument was provided and is not empty.
KeysRight(a, q) ==
    /\ {"state", "per_page", "page"} \subseteq DOMAIN q
    /\ DOMAIN q \subseteq {"state", "per_page", "page"} \cup FilterKeys
    /\ q["state"] = a.state
    /\ \A k \in FilterKeys : (k \in DOMAIN q) = Provided(a, k)

\* C8 as stated: the filter keys are present exactly when provided, and each
\* present key's value is the input (labels joined with commas).
C8_ValueIsInput ==
    (op = "list_issues" /\ nreq > 0)
        => /\ wire.params /= None
           /\ KeysRight(args, wire.params[1])
           /\ \A k \in FilterKeys \cap DOMAIN wire.params[1] :
                wire.params[1][k] = Given(args, k)

\* C8 amended: as above, but a `since` given as a datetime is transmitted as
\* its ISO-8601 string.
C8_FilterOmission ==
    (op = "list_issues" /\ nreq > 0)
        => /\ wire.params /= None
           /\ KeysRight(args, wire.params[1])
           /\ \A k \in FilterKeys \cap DOMAIN wire.params[1] :
                wire.params[1][k] =
                    IF k = "since" /\ args.since[1] = "datetime"
                    THEN (IF args.since[2] = ADatetime
                          THEN "2024-01-02T03:04:05" ELSE "?")
                    ELSE Given(args, k)

C8_Witness ==
    /\ op = "list_issues" /\ nreq > 0
    /\ args.assignee = Some("") /\ args.creator = None
    /\ args.mentioned = Some("alice") /\ args.labels = Some(<<"bug", "urgent">>)
    /\ args.since = <<"datetime", ADatetime>>
    /\ DOMAIN wire.params[1] =
        {"state", "per_page", "page", "labels", "mentioned", "since"}

\* C9: once a request is in flight the call ends, given that the service
\* answers again and again with something that is not the throttle condition.
C9_Terminates == (pc = "awaiting") ~> (pc \in {"returned", "raised"})

\* C10: every request a call transmits is its first one again (method, URL,
\* query, headers), built from the arguments the fetcher passed; and once
\* constructed the client's token, base URL and headers never change.
C10_SameRequestSameSession ==
    /\ [](nreq > 0 =>
            /\ wire = first
            /\ wire.method = "GET"
            /\ wire.url = req.url
            /\ wire.params = req.params
            /\ wire.headers = self.headers[1])
    /\ [][(pc \in {"continue", "awaiting", "backoff"}) => (req' = req)]_vars
    /\ [][ctor = "ok" => (self' = self /\ ctor' = ctor)]_vars

C10_Witness ==
    /\ pc = "awaiting" /\ nreq = 3 /\ nsleep = 1 /\ op = "list_issues"
    /\ wire.params /= None /\ "since" \in DOMAIN wire.params[1]
====
